---- MODULE Spec2Model ----
(***************************************************************************)
(* State-machine model of the FastAPI / SQLAlchemy calculator backend:     *)
(* the operation dispatcher (app/operations.py), the validation schemas    *)
(* (app/schemas.py), the record store (app/crud.py, app/models.py) and the *)
(* HTTP routes (app/main.py, app/routes_*.py).                             *)
(*                                                                         *)
(* Numbers are Python floats in the program.  They are modelled as exact   *)
(* rationals <<n, d>> (d > 0, lowest terms) over a bounded range of        *)
(* integer-valued operands, so that Divide and Power produce the           *)
(* non-integer results the program produces.                               *)
(***************************************************************************)
EXTENDS Integers, Sequences, FiniteSets, TLC

VARIABLES
    call,          \* last direct call of a pure function: its input and outcome
    backend,       \* database dialect selected by DATABASE_URL
    calculations,  \* table "calculations": id -> row
    calc_seq,      \* last value handed out by the calculations id sequence
    users,         \* table "users": id -> row
    user_seq,      \* last value handed out by the users id sequence
    resp,          \* outcome of the last crud call / HTTP request
    sessions       \* request -> where its get_db generator stands and its session

vars == <<call, backend, calculations, calc_seq, users, user_seq, resp, sessions>>

(***************************************************************************)
(* Bounds of the model.                                                    *)
(***************************************************************************)
MaxOperand == 3     \* pure-function checks: operands range over -MaxOperand..MaxOperand
MaxNum == 1         \* store checks: a ranges over 0..MaxNum, b over -MaxNum..MaxNum
MaxCalcs == 2       \* calculation ids range over 1..MaxCalcs
MaxOwner == 1       \* store checks: owner arguments range over None, 1..MaxOwner
MaxUsers == 2       \* at most this many users are registered
MaxNames == 2       \* distinct strings usable as an email or a username
MaxPasswords == 2   \* distinct passwords
MaxSalts == 2       \* distinct salts the password hash may draw
MaxSkip == 1        \* route checks: skip ranges over 0..MaxSkip
MaxRequests == 2    \* session checks: requests in flight at once
MaxUses == 2        \* session checks: a handler touches its session at most this often
MaxTextLen == 2      \* schema checks: emails and usernames of at most this many characters
MaxPasswordLen == 7  \* schema checks: passwords of at most this many characters
MaxStatRows == 3     \* statistics checks: tables of at most this many records

(***************************************************************************)
(* Exact rational arithmetic standing in for float arithmetic.             *)
(***************************************************************************)
Abs(x) == IF x < 0 THEN -x ELSE x

RECURSIVE GCD(_, _)
GCD(x, y) == IF y = 0 THEN x ELSE GCD(y, x % y)

\* <<n, d>> in lowest terms with a positive denominator (d # 0)
Norm(n, d) ==
    LET g == GCD(Abs(n), Abs(d))
        s == IF d < 0 THEN -1 ELSE 1
    IN  <<(s * n) \div g, (s * d) \div g>>

R(i) == <<i, 1>>
IsZero(x) == x[1] = 0
Sign(x) == IF x[1] > 0 THEN 1 ELSE IF x[1] < 0 THEN -1 ELSE 0

RAdd(x, y) == Norm(x[1] * y[2] + y[1] * x[2], x[2] * y[2])
RSub(x, y) == Norm(x[1] * y[2] - y[1] * x[2], x[2] * y[2])
RMul(x, y) == Norm(x[1] * y[1], x[2] * y[2])
RDiv(x, y) == Norm(x[1] * y[2], x[2] * y[1])
\* floor(x) for a rational with positive denominator
RFloor(x) == R(x[1] \div x[2])
\* Python's float %: x - y * floor(x / y)
RPyMod(x, y) == RSub(x, RMul(y, RFloor(RDiv(x, y))))

RECURSIVE RPowNat(_, _)
RPowNat(x, k) == IF k = 0 THEN R(1) ELSE RMul(x, RPowNat(x, k - 1))

\* the value of an expression that raised: no number at all
NoValue == <<0, 0>>

Returned(v) == [exc |-> "none", msg |-> "", value |-> v]
Raised(e, m) == [exc |-> e, msg |-> m, value |-> NoValue]

(***************************************************************************)
(* app/operations.py                                                       *)
(***************************************************************************)
add(a, b) == Returned(RAdd(a, b))

sub(a, b) == Returned(RSub(a, b))

mul(a, b) == Returned(RMul(a, b))

\* div with its guard on the wrong operand
div_guards_dividend(a, b) ==
    IF IsZero(a) \/ IsZero(b) THEN Raised("ZeroDivisionError", "Division by zero")
    ELSE Returned(RDiv(a, b))

div(a, b) ==
    IF IsZero(b) THEN Raised("ZeroDivisionError", "Division by zero")
    ELSE Returned(RDiv(a, b))

\* a ** b on floats, for an integer-valued exponent b: 0.0 to a negative
\* power raises ZeroDivisionError
power(a, b) ==
    IF b[1] >= 0 THEN Returned(RPowNat(a, b[1]))
    ELSE IF IsZero(a)
         THEN Raised("ZeroDivisionError", "0.0 cannot be raised to a negative power")
         ELSE Returned(RDiv(R(1), RPowNat(a, -b[1])))

\* modulus with the remainder of a division that truncates toward zero
\* (C's fmod), whose sign is the dividend's
modulus_truncating(a, b) ==
    IF IsZero(b) THEN Raised("ZeroDivisionError", "Modulus by zero")
    ELSE LET q == RDiv(a, b)
             t == IF q[1] >= 0 THEN RFloor(q) ELSE R(-((-q[1]) \div q[2]))
         IN  Returned(RSub(a, RMul(b, t)))

modulus(a, b) ==
    IF IsZero(b) THEN Raised("ZeroDivisionError", "Modulus by zero")
    ELSE Returned(RPyMod(a, b))

\* compute falling back to addition for a name it does not know
compute_defaults_to_add(a, b, operation_type) ==
    CASE operation_type = "Add" -> add(a, b)
      [] operation_type = "Sub" -> sub(a, b)
      [] operation_type = "Multiply" -> mul(a, b)
      [] operation_type = "Divide" -> div(a, b)
      [] operation_type = "Power" -> power(a, b)
      [] operation_type = "Modulus" -> modulus(a, b)
      [] OTHER -> add(a, b)

compute(a, b, operation_type) ==
    CASE operation_type = "Add" -> add(a, b)
      [] operation_type = "Sub" -> sub(a, b)
      [] operation_type = "Multiply" -> mul(a, b)
      [] operation_type = "Divide" -> div(a, b)
      [] operation_type = "Power" -> power(a, b)
      [] operation_type = "Modulus" -> modulus(a, b)
      [] OTHER -> Raised("ValueError", "Invalid operation type")

(***************************************************************************)
(* app/schemas.py                                                          *)
(***************************************************************************)
\* the Literal[...] of CalculationCreate.type
CalculationTypeLiteral == {"Add", "Sub", "Multiply", "Divide", "Power", "Modulus"}

\* the validator without its Modulus branch
validate_divide_only(a, b, type) ==
    IF type = "Divide" /\ IsZero(b)
    THEN Raised("ValidationError", "Division by zero is not allowed")
    ELSE Returned(NoValue)

\* the model validator, run after the fields validated
validate_division_by_zero(a, b, type) ==
    IF type = "Divide" /\ IsZero(b)
    THEN Raised("ValidationError", "Division by zero is not allowed")
    ELSE IF type = "Modulus" /\ IsZero(b)
         THEN Raised("ValidationError", "Modulus by zero is not allowed")
         ELSE Returned(NoValue)

\* constructing CalculationCreate(a=a, b=b, type=type): the outcome of validation
CalculationCreate(a, b, type) ==
    IF type \notin CalculationTypeLiteral
    THEN Raised("ValidationError", "literal_error: type")
    ELSE validate_division_by_zero(a, b, type)

Accepted(a, b, type) == CalculationCreate(a, b, type).exc = "none"

(***************************************************************************)
(* Inputs.                                                                 *)
(***************************************************************************)
\* an operation name outside every table of the program
UnknownType == "Exp"
TypeInputs == CalculationTypeLiteral \cup {UnknownType}
Operands == {R(i) : i \in -MaxOperand..MaxOperand}
\* store checks: the first operand is non-negative, the second (divisor,
\* modulus, exponent) takes both signs and zero
ANums == {R(i) : i \in 0..MaxNum}
BNums == {R(i) : i \in -MaxNum..MaxNum}

NoCall == [fn |-> "none", a |-> R(0), b |-> R(0), type |-> "", out |-> Returned(NoValue)]
NoResp == [op |-> "none", status |-> 0, ret |-> "", id |-> 0, body |-> <<>>]

\* requests that come in, each resolving Depends(get_db) once
Requests == 1..MaxRequests
\* a request whose get_db generator has not been started
NoSession == [pc |-> "start", db |-> "none", outcome |-> "none", used |-> 0, stale |-> FALSE]

Init ==
    /\ call = NoCall
    /\ backend \in {"sqlite", "postgresql"}
    /\ calculations = <<>>
    /\ calc_seq = 0
    /\ users = <<>>
    /\ user_seq = 0
    /\ resp = NoResp
    /\ sessions = [r \in Requests |-> NoSession]

store_vars == <<backend, calculations, calc_seq, users, user_seq, resp, sessions>>

(***************************************************************************)
(* app/factory.py                                                          *)
(***************************************************************************)
\* the keys of OperationFactory.create's operations dict
FactoryOperations == {"Add", "Sub", "Multiply", "Divide"}

\* what OperationFactory.create gives: an operation instance, or an exception
Created(operation) == [exc |-> "none", msg |-> "", value |-> NoValue, operation |-> operation]
NotCreated(e, m) == [exc |-> e, msg |-> m, value |-> NoValue, operation |-> ""]

\* OperationFactory.create(type)
OperationFactory_create(type) ==
    IF type \in FactoryOperations THEN Created(type)
    ELSE NotCreated("ValueError", "Unsupported operation type")

\* operation.compute(a, b) of the instance create returned
Operation_compute(operation, a, b) ==
    CASE operation = "Add" -> Returned(RAdd(a, b))
      [] operation = "Sub" -> Returned(RSub(a, b))
      [] operation = "Multiply" -> Returned(RMul(a, b))
      [] operation = "Divide" ->
             IF IsZero(b) THEN Raised("ZeroDivisionError", "Division by zero is not allowed")
             ELSE Returned(RDiv(a, b))

(***************************************************************************)
(* Direct calls of the pure functions (as the unit tests make them).       *)
(***************************************************************************)
CallCompute(a, b, t) ==
    /\ call' = [fn |-> "compute", a |-> a, b |-> b, type |-> t, out |-> compute(a, b, t)]
    /\ UNCHANGED store_vars

CallCalculationCreate(a, b, t) ==
    /\ call' = [fn |-> "CalculationCreate", a |-> a, b |-> b, type |-> t,
                out |-> CalculationCreate(a, b, t)]
    /\ UNCHANGED store_vars

CallOperationFactoryCreate(t) ==
    /\ call' = [fn |-> "OperationFactory.create", a |-> R(0), b |-> R(0), type |-> t,
                out |-> OperationFactory_create(t)]
    /\ UNCHANGED store_vars

NextOps ==
    \/ \E a \in Operands, b \in Operands, t \in TypeInputs :
           \/ CallCompute(a, b, t)
           \/ CallCalculationCreate(a, b, t)
    \/ \E t \in TypeInputs : CallOperationFactoryCreate(t)

SpecOps == Init /\ [][NextOps]_vars

(***************************************************************************)
(* app/schemas.py: the profile schemas                                     *)
(***************************************************************************)
\* a str is the sequence of its characters; an Optional[str] is <<>> for None
\* (a field left out, or given as null) and <<s>> for the string s
Chars == {"a", "b"}
NoneStr == <<>>
Some(s) == <<s>>

\* bool(v) of an Optional[str]: None and "" are false
Truthy(v) == v # NoneStr /\ Len(v[1]) > 0

\* the check with "and" turned into "or": both fields demanded
UserUpdate_requires_both(email, username) ==
    IF ~Truthy(email) \/ ~Truthy(username)
    THEN Raised("ValidationError", "At least one field (email or username) must be provided")
    ELSE Returned(NoValue)

\* constructing UserUpdate(email=email, username=username)
UserUpdate(email, username) ==
    IF ~Truthy(email) /\ ~Truthy(username)
    THEN Raised("ValidationError", "At least one field (email or username) must be provided")
    ELSE Returned(NoValue)

\* the literal 6 of validate_new_password
MinPasswordLen == 6

\* the length check made exclusive
PasswordChange_longer_than_min(current_password, new_password) ==
    IF current_password = new_password
    THEN Raised("ValidationError", "New password must be different from current password")
    ELSE IF Len(new_password) <= MinPasswordLen
         THEN Raised("ValidationError", "New password must be at least 6 characters long")
         ELSE Returned(NoValue)

\* constructing PasswordChange(current_password=..., new_password=...)
PasswordChange(current_password, new_password) ==
    IF current_password = new_password
    THEN Raised("ValidationError", "New password must be different from current password")
    ELSE IF Len(new_password) < MinPasswordLen
         THEN Raised("ValidationError", "New password must be at least 6 characters long")
         ELSE Returned(NoValue)

\* every string of at most MaxTextLen characters
Texts == UNION {[1..n -> Chars] : n \in 0..MaxTextLen}
OptionalTexts == {NoneStr} \cup {Some(s) : s \in Texts}

\* passwords of every length up to MaxPasswordLen: "aa..a" and "aa..b"
PasswordTexts ==
    {[k \in 1..n |-> IF k < n THEN "a" ELSE c] : n \in 0..MaxPasswordLen, c \in Chars}

CallUserUpdate(email, username) ==
    /\ call' = [fn |-> "UserUpdate", email |-> email, username |-> username,
                out |-> UserUpdate(email, username)]
    /\ UNCHANGED store_vars

CallPasswordChange(current_password, new_password) ==
    /\ call' = [fn |-> "PasswordChange", current_password |-> current_password,
                new_password |-> new_password,
                out |-> PasswordChange(current_password, new_password)]
    /\ UNCHANGED store_vars

NextProfileSchemas ==
    \/ \E email \in OptionalTexts, username \in OptionalTexts :
           CallUserUpdate(email, username)
    \/ \E current_password \in PasswordTexts, new_password \in PasswordTexts :
           CallPasswordChange(current_password, new_password)

SpecProfileSchemas == Init /\ [][NextProfileSchemas]_vars

(***************************************************************************)
(* app/models.py, app/database.py                                          *)
(***************************************************************************)
\* Python's None where an Optional[int] id is expected (ids start at 1)
None == 0

\* Calculation.__init__ losing the owner
Calculation_without_owner(a, b, type, result, user_id) ==
    [a |-> a, b |-> b, type |-> type, result |-> result, user_id |-> None]

\* Calculation.__init__ with an explicit result (the result is not None)
Calculation(a, b, type, result, user_id) ==
    [a |-> a, b |-> b, type |-> type, result |-> result, user_id |-> user_id]

\* the row as CalculationRead / the refreshed ORM object shows it
CalculationRead(tbl, id) ==
    [id |-> id, a |-> tbl[id].a, b |-> tbl[id].b, type |-> tbl[id].type,
     result |-> tbl[id].result, user_id |-> tbl[id].user_id]

\* what Calculation(a=a, b=b, type=type, result=result, user_id=user_id)
\* gives, result = NoValue standing for result=None (or left out): the object,
\* or the exception of the factory or of the operation
Constructed(row) == [exc |-> "none", msg |-> "", row |-> <<row>>]
NotConstructed(e, m) == [exc |-> e, msg |-> m, row |-> <<>>]

\* Calculation.__init__, both branches
NewCalculation(a, b, type, result, user_id) ==
    IF result = NoValue
    THEN LET operation == OperationFactory_create(type)
         IN  IF operation.exc # "none" THEN NotConstructed(operation.exc, operation.msg)
             ELSE LET r == Operation_compute(operation.operation, a, b)
                  IN  IF r.exc # "none" THEN NotConstructed(r.exc, r.msg)
                      ELSE Constructed(Calculation(a, b, type, r.value, user_id))
    ELSE Constructed(Calculation(a, b, type, result, user_id))

\* explicit results handed to the constructor: none, and two numbers that are
\* or are not what the operation gives
ResultInputs == {NoValue, R(0), R(777)}

\* Calculation(...) constructed directly, as the model tests do
CallCalculation(a, b, t, result) ==
    /\ call' = [fn |-> "Calculation", a |-> a, b |-> b, type |-> t, result |-> result,
                out |-> NewCalculation(a, b, t, result, None)]
    /\ UNCHANGED store_vars

NextModels ==
    \E a \in Operands, b \in Operands, t \in TypeInputs, result \in ResultInputs :
        CallCalculation(a, b, t, result)

SpecModels == Init /\ [][NextModels]_vars

SetMax(S) == CHOOSE x \in S : \A y \in S : y <= x

\* the id the database gives the next calculations row: SQLite's INTEGER
\* PRIMARY KEY takes max(rowid) + 1, PostgreSQL's SERIAL the next sequence value
NextCalcId ==
    IF backend = "sqlite"
    THEN (IF DOMAIN calculations = {} THEN 1 ELSE SetMax(DOMAIN calculations) + 1)
    ELSE calc_seq + 1

\* ForeignKey("users.id"): enforced by PostgreSQL, not by SQLite (the engine
\* is created without PRAGMA foreign_keys)
ForeignKeyOk(user_id) ==
    backend = "sqlite" \/ user_id = None \/ user_id \in DOMAIN users

(***************************************************************************)
(* app/crud.py: calculations                                               *)
(***************************************************************************)
\* db.query(Calculation).filter(Calculation.id == calculation_id).first():
\* the matching row, or nothing
get_calculation(tbl, calculation_id) ==
    IF calculation_id \in DOMAIN tbl THEN <<CalculationRead(tbl, calculation_id)>> ELSE <<>>

\* db.add(db_calculation); db.commit()
InsertCalculation(tbl, id, row) == tbl @@ (id :> row)

\* update_calculation keeping the stale result
UpdatedCalculation_stale_result(row, a, b, type, result) ==
    [row EXCEPT !.a = a, !.b = b, !.type = type]

\* an update that rebuilds the record without its owner
UpdatedCalculation_drops_owner(row, a, b, type, result) ==
    Calculation(a, b, type, result, None)

\* the four assignments of update_calculation
UpdatedCalculation(row, a, b, type, result) ==
    [row EXCEPT !.a = a, !.b = b, !.type = type, !.result = result]

\* a delete that is not filtered by id
DeleteCalculationRow_all(tbl, id) == [i \in {} |-> tbl[i]]

\* db.delete(db_calculation); db.commit()
DeleteCalculationRow(tbl, id) == [i \in (DOMAIN tbl) \ {id} |-> tbl[i]]

\* what a crud call returned or raised
CrudResp(op, ret, id, body) == [op |-> op, status |-> 0, ret |-> ret, id |-> id, body |-> body]

\* an HTTP response: status code, detail, and the record(s) of its body
HttpResp(op, status, detail, id, body) ==
    [op |-> op, status |-> status, ret |-> detail, id |-> id, body |-> body]

\* the status a handler's try/except gives each outcome of the crud call:
\* ValueError and ZeroDivisionError become 400; any other exception, and a
\* None that fails the response model, is answered 500
HandlerStatus(ok_status, ret) ==
    IF ret = "Calculation" THEN ok_status
    ELSE IF ret \in {"ValueError", "ZeroDivisionError"} THEN 400
    ELSE 500

\* what the caller op makes of the crud call's outcome: a direct caller sees
\* the return value or the exception, a route handler answers with a status
Respond(op, ret, id, body) ==
    CASE op \in {"main.create_calculation", "add_calculation"} ->
             HttpResp(op, HandlerStatus(201, ret), ret, id, body)
      [] op = "edit_calculation" ->
             HttpResp(op, HandlerStatus(200, ret), ret, id, body)
      [] op = "delete_calculation_route" ->
             HttpResp(op, 204, "", None, <<>>)
      [] OTHER -> CrudResp(op, ret, id, body)

\* crud.create_calculation(db, calc_in, user_id); its effect on the store and
\* what its caller op gets back
CreateCalculationEffect(a, b, type, user_id, op) ==
    LET r == compute(a, b, type)
        id == NextCalcId
    IN  IF r.exc # "none"
        THEN /\ resp' = Respond(op, r.exc, None, <<>>)
             /\ UNCHANGED <<calculations, calc_seq>>
        ELSE /\ id <= MaxCalcs
             /\ calc_seq' = IF backend = "sqlite" THEN calc_seq ELSE id
             /\ IF ForeignKeyOk(user_id)
                THEN /\ calculations' = InsertCalculation(calculations, id,
                                            Calculation(a, b, type, r.value, user_id))
                     /\ resp' = Respond(op, "Calculation", id, get_calculation(calculations', id))
                ELSE /\ calculations' = calculations
                     /\ resp' = Respond(op, "IntegrityError", None, <<>>)

crud_create_calculation(a, b, type, user_id) ==
    /\ Accepted(a, b, type)      \* calc_in is a constructed CalculationCreate
    /\ CreateCalculationEffect(a, b, type, user_id, "create_calculation")
    /\ UNCHANGED <<call, sessions, backend, users, user_seq>>

crud_get_calculation(calculation_id) ==
    /\ resp' = CrudResp("get_calculation",
                        IF calculation_id \in DOMAIN calculations THEN "Calculation" ELSE "None",
                        calculation_id, get_calculation(calculations, calculation_id))
    /\ UNCHANGED <<call, sessions, backend, calculations, calc_seq, users, user_seq>>

\* an update that stores the new operands before it recomputes the result
UpdateCalculationEffect_stores_first(calculation_id, a, b, type, op) ==
    IF get_calculation(calculations, calculation_id) = <<>>
    THEN /\ resp' = Respond(op, "None", calculation_id, <<>>)
         /\ UNCHANGED calculations
    ELSE LET r == compute(a, b, type)
         IN  /\ calculations' =
                    [calculations EXCEPT ![calculation_id] =
                        UpdatedCalculation(@, a, b, type,
                                           IF r.exc = "none" THEN r.value ELSE @.result)]
             /\ resp' = IF r.exc # "none" THEN Respond(op, r.exc, calculation_id, <<>>)
                        ELSE Respond(op, "Calculation", calculation_id,
                                     get_calculation(calculations', calculation_id))

\* crud.update_calculation(db, calculation_id, calc_in)
UpdateCalculationEffect(calculation_id, a, b, type, op) ==
    IF get_calculation(calculations, calculation_id) = <<>>
    THEN /\ resp' = Respond(op, "None", calculation_id, <<>>)
         /\ UNCHANGED calculations
    ELSE LET r == compute(a, b, type)
         IN  IF r.exc # "none"
             THEN /\ resp' = Respond(op, r.exc, calculation_id, <<>>)
                  /\ UNCHANGED calculations
             ELSE /\ calculations' =
                        [calculations EXCEPT ![calculation_id] =
                            UpdatedCalculation(@, a, b, type, r.value)]
                  /\ resp' = Respond(op, "Calculation", calculation_id,
                                    get_calculation(calculations', calculation_id))

crud_update_calculation(calculation_id, a, b, type) ==
    /\ Accepted(a, b, type)
    /\ UpdateCalculationEffect(calculation_id, a, b, type, "update_calculation")
    /\ UNCHANGED <<call, sessions, backend, calc_seq, users, user_seq>>

\* crud.delete_calculation(db, calculation_id)
DeleteCalculationEffect(calculation_id, op) ==
    IF get_calculation(calculations, calculation_id) = <<>>
    THEN /\ resp' = Respond(op, "False", calculation_id, <<>>)
         /\ UNCHANGED calculations
    ELSE /\ calculations' = DeleteCalculationRow(calculations, calculation_id)
         /\ resp' = Respond(op, "True", calculation_id, <<>>)

crud_delete_calculation(calculation_id) ==
    /\ DeleteCalculationEffect(calculation_id, "delete_calculation")
    /\ UNCHANGED <<call, sessions, backend, calc_seq, users, user_seq>>

CalcIds == 1..MaxCalcs
OwnerArgs == {None} \cup 1..MaxOwner

NextStore ==
    \/ \E a \in ANums, b \in BNums, t \in CalculationTypeLiteral, u \in OwnerArgs :
           crud_create_calculation(a, b, t, u)
    \/ \E id \in CalcIds : crud_get_calculation(id)
    \/ \E id \in CalcIds, a \in ANums, b \in BNums, t \in CalculationTypeLiteral :
           crud_update_calculation(id, a, b, t)
    \/ \E id \in CalcIds : crud_delete_calculation(id)

SpecStore == Init /\ [][NextStore]_vars

\* crud.create_calculation(db, calc_in, user_id) for a calc_in that did not go
\* through validation (CalculationCreate.model_construct, or any object with
\* a, b and type): the function itself checks nothing
crud_create_calculation_unchecked(a, b, type, user_id) ==
    /\ CreateCalculationEffect(a, b, type, user_id, "create_calculation")
    /\ UNCHANGED <<call, sessions, backend, users, user_seq>>

\* crud.update_calculation(db, calculation_id, calc_in) for such a calc_in
crud_update_calculation_unchecked(calculation_id, a, b, type) ==
    /\ UpdateCalculationEffect(calculation_id, a, b, type, "update_calculation")
    /\ UNCHANGED <<call, sessions, backend, calc_seq, users, user_seq>>

\* unchecked inputs: (1, b, type) with b in {0, 1}; two types whose function
\* guards b, one that does not, and a name outside the dispatch table
UncheckedA == {R(1)}
UncheckedTypes == {"Add", "Divide", "Modulus", UnknownType}

NextStoreUnchecked ==
    \/ \E a \in UncheckedA, b \in ANums, t \in UncheckedTypes, u \in OwnerArgs :
           crud_create_calculation_unchecked(a, b, t, u)
    \/ \E id \in CalcIds : crud_get_calculation(id)
    \/ \E id \in CalcIds, a \in UncheckedA, b \in ANums, t \in UncheckedTypes :
           crud_update_calculation_unchecked(id, a, b, t)
    \/ \E id \in CalcIds : crud_delete_calculation(id)

SpecStoreUnchecked == Init /\ [][NextStoreUnchecked]_vars

(***************************************************************************)
(* app/security.py (not part of the sources at hand): password hashing     *)
(***************************************************************************)
\* a salted hash: opaque, different across calls for the same password
hash_password(password, salt) == <<"hash", salt, password>>

verify_password(password, hashed) == hashed[3] = password

(***************************************************************************)
(* app/crud.py: users                                                      *)
(***************************************************************************)
\* emails, usernames and login identifiers are arbitrary strings (UserCreate
\* declares them str): one pool of distinct non-empty strings serves for all
Names == 1..MaxNames
Passwords == 1..MaxPasswords
Salts == 1..MaxSalts
UserIds == 1..MaxUsers

UserRead(tbl, id) ==
    [id |-> id, email |-> tbl[id].email, username |-> tbl[id].username,
     is_active |-> tbl[id].is_active]

\* .filter(...).first() without ORDER BY: the matching row with the lowest id
FirstUser(tbl, ids) ==
    IF ids = {} THEN <<>> ELSE <<CHOOSE i \in ids : \A j \in ids : i <= j>>

\* a lookup that compares the wrong column
get_user_by_email_wrong_column(tbl, email) ==
    FirstUser(tbl, {i \in DOMAIN tbl : tbl[i].username = email})

\* the id of the user with that email, or nothing
get_user_by_email(tbl, email) ==
    FirstUser(tbl, {i \in DOMAIN tbl : tbl[i].email = email})

get_user_by_username(tbl, username) ==
    FirstUser(tbl, {i \in DOMAIN tbl : tbl[i].username = username})

\* models.User(email, username, hashed_password), is_active defaulting to 1
User(email, username, hashed_password) ==
    [email |-> email, username |-> username, hashed_password |-> hashed_password,
     is_active |-> 1]

NextUserId ==
    IF backend = "sqlite"
    THEN (IF DOMAIN users = {} THEN 1 ELSE SetMax(DOMAIN users) + 1)
    ELSE user_seq + 1

\* crud.create_user(db, user), the email and username being free
create_user(email, username, password, salt) ==
    LET id == NextUserId
    IN  /\ id <= MaxUsers
        /\ users' = users @@ (id :> User(email, username, hash_password(password, salt)))
        /\ user_seq' = IF backend = "sqlite" THEN user_seq ELSE id

(***************************************************************************)
(* app/routes_users.py                                                     *)
(***************************************************************************)
\* POST /users/register
register_user(email, username, password, salt) ==
    /\ IF get_user_by_email(users, email) # <<>>
       THEN /\ resp' = HttpResp("register_user", 400, "Email already registered", None, <<>>)
            /\ UNCHANGED <<users, user_seq>>
       ELSE IF get_user_by_username(users, username) # <<>>
            THEN /\ resp' = HttpResp("register_user", 400, "Username already taken", None, <<>>)
                 /\ UNCHANGED <<users, user_seq>>
            ELSE /\ create_user(email, username, password, salt)
                 /\ resp' = HttpResp("register_user", 201, "", NextUserId,
                                     <<UserRead(users', NextUserId)>>)
    /\ UNCHANGED <<call, sessions, backend, calculations, calc_seq>>

\* login answering an inactive account as the token-issuing variant does
LoginOutcome_inactive_403(tbl, username_or_email, password) ==
    LET by_email == get_user_by_email(tbl, username_or_email)
        user == IF by_email # <<>> THEN by_email
                ELSE get_user_by_username(tbl, username_or_email)
    IN  IF user = <<>> \/ ~verify_password(password, tbl[user[1]].hashed_password)
        THEN [status |-> 401, detail |-> "Invalid credentials", id |-> None]
        ELSE IF tbl[user[1]].is_active = 0
             THEN [status |-> 403, detail |-> "User account is inactive", id |-> None]
             ELSE [status |-> 200, detail |-> "Login successful", id |-> user[1]]

\* the body of login_user: status, detail and the user it identifies
LoginOutcome(tbl, username_or_email, password) ==
    LET by_email == get_user_by_email(tbl, username_or_email)
        user == IF by_email # <<>> THEN by_email
                ELSE get_user_by_username(tbl, username_or_email)
    IN  IF user = <<>> \/ ~verify_password(password, tbl[user[1]].hashed_password)
        THEN [status |-> 401, detail |-> "Invalid credentials", id |-> None]
        ELSE IF tbl[user[1]].is_active = 0
             THEN [status |-> 401, detail |-> "User account is inactive", id |-> None]
             ELSE [status |-> 200, detail |-> "Login successful", id |-> user[1]]

\* POST /users/login
login_user(username_or_email, password) ==
    /\ LET out == LoginOutcome(users, username_or_email, password)
       IN  resp' = HttpResp("login_user", out.status, out.detail, out.id,
                            IF out.status = 200 THEN <<UserRead(users, out.id)>> ELSE <<>>)
    /\ UNCHANGED <<call, sessions, backend, calculations, calc_seq, users, user_seq>>

\* user.is_active = 0; db.commit() -- no route does it, the tests do it on the
\* session directly
deactivate_user(id) ==
    /\ id \in DOMAIN users
    /\ users[id].is_active = 1
    /\ users' = [users EXCEPT ![id].is_active = 0]
    /\ resp' = HttpResp("deactivate_user", 0, "", id, <<>>)
    /\ UNCHANGED <<call, sessions, backend, calculations, calc_seq, user_seq>>

NextUsers ==
    \/ \E e \in Names, u \in Names, p \in Passwords, salt \in Salts :
           register_user(e, u, p, salt)
    \/ \E ident \in Names, p \in Passwords : login_user(ident, p)
    \/ \E id \in UserIds : deactivate_user(id)

SpecUsers == Init /\ [][NextUsers]_vars

(***************************************************************************)
(* app/main.py: the unauthenticated database-backed endpoints              *)
(***************************************************************************)
\* POST /calculations/?user_id=
main_create_calculation(a, b, type, user_id) ==
    /\ IF ~Accepted(a, b, type)
       THEN /\ resp' = HttpResp("main.create_calculation", 422, "ValidationError", None, <<>>)
            /\ UNCHANGED <<calculations, calc_seq>>
       ELSE CreateCalculationEffect(a, b, type, user_id, "main.create_calculation")
    /\ UNCHANGED <<call, sessions, backend, users, user_seq>>

\* GET /calculations/{calculation_id}
main_get_calculation(calculation_id) ==
    /\ LET calculation == get_calculation(calculations, calculation_id)
       IN  resp' = IF calculation = <<>>
                   THEN HttpResp("main.get_calculation", 404, "Calculation not found", None, <<>>)
                   ELSE HttpResp("main.get_calculation", 200, "", calculation_id, calculation)
    /\ UNCHANGED <<call, sessions, backend, calculations, calc_seq, users, user_seq>>

NextLegacy ==
    \/ \E a \in ANums, b \in BNums, t \in TypeInputs, u \in OwnerArgs :
           main_create_calculation(a, b, t, u)
    \/ \E id \in CalcIds : main_get_calculation(id)

SpecLegacy == Init /\ [][NextLegacy]_vars

(***************************************************************************)
(* app/crud.py: listing                                                    *)
(***************************************************************************)
SetMin(S) == CHOOSE x \in S : \A y \in S : x <= y

\* the rows with the given ids as a query without ORDER BY returns them: in
\* primary-key order
RECURSIVE RowsInIdOrder(_, _)
RowsInIdOrder(tbl, ids) ==
    IF ids = {} THEN <<>>
    ELSE <<CalculationRead(tbl, SetMin(ids))>> \o RowsInIdOrder(tbl, ids \ {SetMin(ids)})

\* .offset(skip).limit(limit).all()
Window(rows, skip, limit) ==
    SubSeq(rows, skip + 1, IF skip + limit < Len(rows) THEN skip + limit ELSE Len(rows))

\* the rows with the given ids in each arrangement
RowsInAnyOrder(tbl, ids) ==
    LET n == Cardinality(ids)
        orders == {s \in [1..n -> ids] : \A i \in 1..n, j \in 1..n : i # j => s[i] # s[j]}
    IN  {[k \in 1..n |-> CalculationRead(tbl, s[k])] : s \in orders}

\* what a query without ORDER BY may return for the rows with the given ids:
\* SQLite walks the table in rowid order; PostgreSQL returns the rows "in
\* whatever order the system finds fastest to produce" (the heap order, in
\* which an updated row has moved behind the others), an order that no clause
\* of the query fixes
ScanOrders(tbl, ids) ==
    IF backend = "sqlite" THEN {RowsInIdOrder(tbl, ids)} ELSE RowsInAnyOrder(tbl, ids)

\* crud.list_calculations(db, skip, limit): the lists it may return
list_calculations(tbl, skip, limit) ==
    {Window(rows, skip, limit) : rows \in ScanOrders(tbl, DOMAIN tbl)}

\* list_user_calculations without its filter
list_user_calculations_unfiltered(tbl, user_id, skip, limit) ==
    {Window(rows, skip, limit) : rows \in ScanOrders(tbl, DOMAIN tbl)}

\* crud.list_user_calculations(db, user_id, skip, limit): the lists it may return
list_user_calculations(tbl, user_id, skip, limit) ==
    {Window(rows, skip, limit) :
        rows \in ScanOrders(tbl, {i \in DOMAIN tbl : tbl[i].user_id = user_id})}

\* the default of the limit parameters
DefaultLimit == 100

\* crud.list_calculations(db, skip, limit) called directly
crud_list_calculations(skip, limit) ==
    /\ \E result \in list_calculations(calculations, skip, limit) :
           resp' = [op |-> "list_calculations", status |-> 0, ret |-> "List",
                    id |-> None, body |-> result, skip |-> skip, limit |-> limit]
    /\ UNCHANGED <<call, sessions, backend, calculations, calc_seq, users, user_seq>>

\* crud.list_user_calculations(db, user_id, skip, limit) called directly
crud_list_user_calculations(user_id, skip, limit) ==
    /\ \E result \in list_user_calculations(calculations, user_id, skip, limit) :
           resp' = [op |-> "list_user_calculations", status |-> 0, ret |-> "List",
                    id |-> user_id, body |-> result, skip |-> skip, limit |-> limit]
    /\ UNCHANGED <<call, sessions, backend, calculations, calc_seq, users, user_seq>>

\* listing checks: records (1, b, Add) with b in {0, 1}, owned by nobody or by
\* a registered user (users register with email = username); skip runs past
\* the largest table, limit from 0 past it and the default
ListA == {R(1)}
ListTypes == {"Add"}
ListOwners == {None} \cup UserIds
ListSkips == 0..(MaxCalcs + 1)
ListLimits == (0..(MaxCalcs + 1)) \cup {DefaultLimit}

NextListing ==
    \/ \E n \in Names, p \in {SetMin(Passwords)}, salt \in {SetMin(Salts)} :
           register_user(n, n, p, salt)
    \/ \E a \in ListA, b \in ANums, t \in ListTypes, u \in ListOwners :
           crud_create_calculation(a, b, t, u)
    \/ \E id \in CalcIds, a \in ListA, b \in ANums, t \in ListTypes :
           crud_update_calculation(id, a, b, t)
    \/ \E id \in CalcIds : crud_delete_calculation(id)
    \/ \E skip \in ListSkips, limit \in ListLimits : crud_list_calculations(skip, limit)
    \/ \E u \in ListOwners, skip \in ListSkips, limit \in ListLimits :
           crud_list_user_calculations(u, skip, limit)

SpecListing == Init /\ [][NextListing]_vars

(***************************************************************************)
(* app/crud.py: get_user_calculation_stats                                 *)
(***************************************************************************)
\* sum(results), a left fold from 0
RECURSIVE SumResults(_)
SumResults(rows) ==
    IF rows = <<>> THEN R(0)
    ELSE RAdd(SumResults(SubSeq(rows, 1, Len(rows) - 1)), rows[Len(rows)].result)

\* the query of the statistics without its filter
StatsQuery_any_owner(tbl, user_id) == ScanOrders(tbl, DOMAIN tbl)

\* db.query(Calculation).filter(Calculation.user_id == user_id).all(): the
\* lists it may return
StatsQuery(tbl, user_id) == ScanOrders(tbl, {i \in DOMAIN tbl : tbl[i].user_id = user_id})

\* the dict the function builds from the rows it fetched; an Optional is <<>>
\* for None and <<v>> for the value v
StatsOf(rows) ==
    LET types == {rows[k].type : k \in 1..Len(rows)}
        operations_breakdown ==
            [t \in types |-> Cardinality({k \in 1..Len(rows) : rows[k].type = t})]
        \* max(d, key=d.get): the first key, in insertion order, whose count is largest
        first_max == CHOOSE k \in 1..Len(rows) :
                        /\ \A t \in types :
                               operations_breakdown[t] <= operations_breakdown[rows[k].type]
                        /\ \A j \in 1..(k - 1) :
                               operations_breakdown[rows[j].type]
                                   < operations_breakdown[rows[k].type]
    IN  IF rows = <<>>
        THEN [total_calculations |-> 0, operations_breakdown |-> <<>>,
              most_used_operation |-> <<>>, average_result |-> <<>>]
        ELSE [total_calculations |-> Len(rows),
              operations_breakdown |-> operations_breakdown,
              most_used_operation |-> <<rows[first_max].type>>,
              average_result |-> <<RDiv(SumResults(rows), R(Len(rows)))>>]

\* crud.get_user_calculation_stats(db, user_id) called directly
crud_get_user_calculation_stats(user_id) ==
    /\ \E rows \in StatsQuery(calculations, user_id) :
           resp' = CrudResp("get_user_calculation_stats", "dict", user_id, <<StatsOf(rows)>>)
    /\ UNCHANGED <<call, sessions, backend, calculations, calc_seq, users, user_seq>>

\* statistics checks: every table of up to MaxStatRows records (1, b, type),
\* b in {0, 1}, type Add or Sub, each owned by nobody or by one of the
\* registered users (who registered with email = username)
StatRows ==
    {Calculation(R(1), b, t, compute(R(1), b, t).value, u) :
        b \in ANums, t \in {"Add", "Sub"}, u \in ListOwners}

InitStats ==
    /\ call = NoCall
    /\ backend \in {"sqlite", "postgresql"}
    /\ calculations \in UNION {[1..n -> StatRows] : n \in 0..MaxStatRows}
    /\ calc_seq = IF backend = "sqlite" THEN 0 ELSE Len(calculations)
    /\ users = [i \in UserIds |-> User(i, i, hash_password(SetMin(Passwords), SetMin(Salts)))]
    /\ user_seq = IF backend = "sqlite" THEN 0 ELSE MaxUsers
    /\ resp = NoResp
    /\ sessions = [r \in Requests |-> NoSession]

NextStats == \E u \in UserIds : crud_get_user_calculation_stats(u)

SpecStats == InitStats /\ [][NextStats]_vars

(***************************************************************************)
(* app/security.py (not part of the sources at hand): the bearer token     *)
(***************************************************************************)
\* a request's bearer token, named by the subject it was signed for; None
\* stands for a missing or invalid token
Tokens == {None} \cup UserIds

\* get_current_user: the user whose id is the token's subject, or nothing
\* (answered 401) when the token is missing or invalid or the user is unknown
get_current_user(tbl, token) ==
    IF token # None /\ token \in DOMAIN tbl THEN <<token>> ELSE <<>>

Unauthenticated(op) == HttpResp(op, 401, "Could not validate credentials", None, <<>>)
Unprocessable(op) == HttpResp(op, 422, "ValidationError", None, <<>>)

(***************************************************************************)
(* app/routes_calculations.py                                              *)
(***************************************************************************)
NotFound(op) == HttpResp(op, 404, "Calculation not found", None, <<>>)

\* an ownership test that only looks whether the record exists
Visible_to_anyone(calculation, current_user) == calculation # <<>>

\* the negation of "calculation is None or calculation.user_id != current_user.id"
Visible(calculation, current_user) ==
    calculation # <<>> /\ calculation[1].user_id = current_user

\* GET /calculations/
browse_calculations(token, skip, limit) ==
    /\ LET current_user == get_current_user(users, token)
       IN  IF current_user = <<>>
           THEN resp' = Unauthenticated("browse_calculations")
           ELSE \E result \in list_user_calculations(calculations, current_user[1], skip, limit) :
                    resp' = HttpResp("browse_calculations", 200, "", None, result)
    /\ UNCHANGED <<call, sessions, backend, calculations, calc_seq, users, user_seq>>

\* GET /calculations/{calculation_id}
read_calculation(token, calculation_id) ==
    /\ LET current_user == get_current_user(users, token)
           calculation == get_calculation(calculations, calculation_id)
       IN  resp' = IF current_user = <<>> THEN Unauthenticated("read_calculation")
                   ELSE IF ~Visible(calculation, current_user[1])
                        THEN NotFound("read_calculation")
                        ELSE HttpResp("read_calculation", 200, "", calculation_id, calculation)
    /\ UNCHANGED <<call, sessions, backend, calculations, calc_seq, users, user_seq>>

\* POST /calculations/
add_calculation(token, a, b, type) ==
    /\ LET current_user == get_current_user(users, token)
       IN  IF current_user = <<>>
           THEN /\ resp' = Unauthenticated("add_calculation")
                /\ UNCHANGED <<calculations, calc_seq>>
           ELSE IF ~Accepted(a, b, type)
                THEN /\ resp' = Unprocessable("add_calculation")
                     /\ UNCHANGED <<calculations, calc_seq>>
                ELSE CreateCalculationEffect(a, b, type, current_user[1], "add_calculation")
    /\ UNCHANGED <<call, sessions, backend, users, user_seq>>

\* PUT /calculations/{calculation_id}
edit_calculation(token, calculation_id, a, b, type) ==
    /\ LET current_user == get_current_user(users, token)
       IN  IF current_user = <<>>
           THEN /\ resp' = Unauthenticated("edit_calculation")
                /\ UNCHANGED calculations
           ELSE IF ~Accepted(a, b, type)
                THEN /\ resp' = Unprocessable("edit_calculation")
                     /\ UNCHANGED calculations
                ELSE IF ~Visible(get_calculation(calculations, calculation_id), current_user[1])
                     THEN /\ resp' = NotFound("edit_calculation")
                          /\ UNCHANGED calculations
                     ELSE UpdateCalculationEffect(calculation_id, a, b, type, "edit_calculation")
    /\ UNCHANGED <<call, sessions, backend, calc_seq, users, user_seq>>

\* DELETE /calculations/{calculation_id}
delete_calculation(token, calculation_id) ==
    /\ LET current_user == get_current_user(users, token)
       IN  IF current_user = <<>>
           THEN /\ resp' = Unauthenticated("delete_calculation_route")
                /\ UNCHANGED calculations
           ELSE IF ~Visible(get_calculation(calculations, calculation_id), current_user[1])
                THEN /\ resp' = NotFound("delete_calculation_route")
                     /\ UNCHANGED calculations
                ELSE DeleteCalculationEffect(calculation_id, "delete_calculation_route")
    /\ UNCHANGED <<call, sessions, backend, calc_seq, users, user_seq>>

\* route checks: request bodies (1, b, type) with b in {0, 1}, two accepted
\* types and one unknown name; users register with email = username
ApiA == {R(1)}
ApiTypes == {"Add", "Divide", UnknownType}
Skips == 0..MaxSkip
Limits == {1, DefaultLimit}

NextApi ==
    \/ \E n \in Names, p \in {SetMin(Passwords)}, salt \in {SetMin(Salts)} :
           register_user(n, n, p, salt)
    \/ \E token \in Tokens, skip \in Skips, limit \in Limits :
           browse_calculations(token, skip, limit)
    \/ \E token \in Tokens, id \in CalcIds : read_calculation(token, id)
    \/ \E token \in Tokens, a \in ApiA, b \in ANums, t \in ApiTypes :
           add_calculation(token, a, b, t)
    \/ \E token \in Tokens, id \in CalcIds, a \in ApiA, b \in ANums, t \in ApiTypes :
           edit_calculation(token, id, a, b, t)
    \/ \E token \in Tokens, id \in CalcIds : delete_calculation(token, id)

SpecApi == Init /\ [][NextApi]_vars

(***************************************************************************)
(* app/routes_profile.py, app/crud.py: profile                             *)
(***************************************************************************)
\* the empty string among the emails and usernames; the string number n is
\* the string of n characters "a"
EmptyName == 0
AsText(v) == IF v = NoneStr THEN NoneStr ELSE Some([k \in 1..v[1] |-> "a"])

\* truth value of user_update.email / user_update.username in the handler
Provided(v) == v # NoneStr /\ v[1] # EmptyName

\* unique=True on users.email and users.username: what the database checks
\* when a transaction commits
UniqueOk(tbl) ==
    \A i \in DOMAIN tbl, j \in DOMAIN tbl :
        i # j => tbl[i].email # tbl[j].email /\ tbl[i].username # tbl[j].username

\* crud.update_user_profile: the assignments, made for every field that is
\* not None
UpdatedUser(row, email, username) ==
    [row EXCEPT !.email = IF email # NoneStr THEN email[1] ELSE @,
                !.username = IF username # NoneStr THEN username[1] ELSE @]

\* PUT /profile/me
update_my_profile(token, email, username) ==
    /\ LET current_user == get_current_user(users, token)
           by_email == get_user_by_email(users, email[1])
           by_username == get_user_by_username(users, username[1])
           updated == [users EXCEPT ![current_user[1]] = UpdatedUser(@, email, username)]
       IN  IF current_user = <<>>
           THEN resp' = Unauthenticated("update_my_profile") /\ UNCHANGED users
           ELSE IF UserUpdate(AsText(email), AsText(username)).exc # "none"
           THEN resp' = Unprocessable("update_my_profile") /\ UNCHANGED users
           ELSE IF Provided(email) /\ by_email # <<>> /\ by_email # current_user
           THEN /\ resp' = HttpResp("update_my_profile", 400, "Email already registered",
                                    None, <<>>)
                /\ UNCHANGED users
           ELSE IF Provided(username) /\ by_username # <<>> /\ by_username # current_user
           THEN /\ resp' = HttpResp("update_my_profile", 400, "Username already taken",
                                    None, <<>>)
                /\ UNCHANGED users
           ELSE IF ~UniqueOk(updated)
           THEN \* db.commit() raises IntegrityError, which no handler catches
                /\ resp' = HttpResp("update_my_profile", 500, "IntegrityError", None, <<>>)
                /\ UNCHANGED users
           ELSE /\ users' = updated
                /\ resp' = HttpResp("update_my_profile", 200, "", current_user[1],
                                    <<UserRead(users', current_user[1])>>)
    /\ UNCHANGED <<call, sessions, backend, calculations, calc_seq, user_seq>>

\* a password update that is not filtered by id
PasswordUpdated_every_user(tbl, user_id, hashed_password) ==
    [i \in DOMAIN tbl |-> [tbl[i] EXCEPT !.hashed_password = hashed_password]]

\* crud.update_user_password: db_user.hashed_password = ...; db.commit()
PasswordUpdated(tbl, user_id, hashed_password) ==
    [tbl EXCEPT ![user_id].hashed_password = hashed_password]

\* POST /profile/change-password
change_password(token, current_password, new_password, salt) ==
    /\ LET current_user == get_current_user(users, token)
       IN  IF current_user = <<>>
           THEN resp' = Unauthenticated("change_password") /\ UNCHANGED users
           ELSE IF PasswordChange(current_password, new_password).exc # "none"
           THEN resp' = Unprocessable("change_password") /\ UNCHANGED users
           ELSE IF ~verify_password(current_password, users[current_user[1]].hashed_password)
           THEN /\ resp' = HttpResp("change_password", 401, "Current password is incorrect",
                                    None, <<>>)
                /\ UNCHANGED users
           ELSE /\ users' = PasswordUpdated(users, current_user[1],
                                            hash_password(new_password, salt))
                /\ resp' = HttpResp("change_password", 200, "Password changed successfully",
                                    current_user[1], <<>>)
    /\ UNCHANGED <<call, sessions, backend, calculations, calc_seq, user_seq>>

\* profile checks: fields that are None, empty or a name; three passwords,
\* one shorter than the minimum and two of exactly its length
ProfileFields == {NoneStr} \cup {Some(n) : n \in {EmptyName} \cup Names}
ProfilePasswords ==
    {p \in PasswordTexts : Len(p) = MinPasswordLen \/ (Len(p) = MinPasswordLen - 1 /\ p[1] = p[Len(p)])}

NextProfile ==
    \/ \E n \in Names, p \in ProfilePasswords, salt \in {SetMin(Salts)} :
           register_user(n, n, p, salt)
    \/ \E token \in Tokens, email \in ProfileFields, username \in ProfileFields :
           update_my_profile(token, email, username)
    \/ \E token \in Tokens, current_password \in ProfilePasswords,
          new_password \in ProfilePasswords, salt \in {SetMin(Salts)} :
           change_password(token, current_password, new_password, salt)

SpecProfile == Init /\ [][NextProfile]_vars

(***************************************************************************)
(* app/database.py: get_db, the generator behind Depends(get_db)           *)
(***************************************************************************)
not_sessions == <<call, backend, calculations, calc_seq, users, user_seq, resp>>

\* db = SessionLocal(); try: yield db -- the generator runs to its yield and
\* hands the session to the handler
get_db_enter(r) ==
    /\ sessions[r].pc = "start"
    /\ sessions' = [sessions EXCEPT ![r].pc = "yield", ![r].db = "open"]
    /\ UNCHANGED not_sessions

\* the handler (a crud call) touches the session it was given; stale records
\* a touch of a session that is not open
handler_uses_db(r) ==
    /\ sessions[r].pc = "yield" /\ sessions[r].outcome = "none"
    /\ sessions[r].used < MaxUses
    /\ sessions' = [sessions EXCEPT ![r].used = @ + 1,
                                    ![r].stale = @ \/ sessions[r].db # "open"]
    /\ UNCHANGED not_sessions

\* the handler returns its response
handler_returns(r) ==
    /\ sessions[r].pc = "yield" /\ sessions[r].outcome = "none"
    /\ sessions' = [sessions EXCEPT ![r].outcome = "returned"]
    /\ UNCHANGED not_sessions

\* the handler raises (an HTTPException or any other exception)
handler_raises(r) ==
    /\ sessions[r].pc = "yield" /\ sessions[r].outcome = "none"
    /\ sessions' = [sessions EXCEPT ![r].outcome = "raised"]
    /\ UNCHANGED not_sessions

\* the generator without try/finally: an exception thrown in at the yield
\* ends it before db.close()
SessionAfterExit_without_finally(session) ==
    IF session.outcome = "raised"
    THEN [session EXCEPT !.pc = "end"]
    ELSE [session EXCEPT !.pc = "end", !.db = "closed"]

\* finally: db.close() -- runs when the generator is resumed after a return
\* and when the handler's exception is thrown in at the yield
SessionAfterExit(session) == [session EXCEPT !.pc = "end", !.db = "closed"]

\* the framework finishes the request: it resumes the generator, or throws
\* the handler's exception into it
get_db_exit(r) ==
    /\ sessions[r].pc = "yield" /\ sessions[r].outcome # "none"
    /\ sessions' = [sessions EXCEPT ![r] = SessionAfterExit(@)]
    /\ UNCHANGED not_sessions

NextSessions ==
    \E r \in Requests :
        \/ get_db_enter(r)
        \/ handler_uses_db(r)
        \/ handler_returns(r)
        \/ handler_raises(r)
        \/ get_db_exit(r)

\* a handler is straight-line code and ends; the framework always finishes a
\* request whose handler has ended
FairSessions ==
    \A r \in Requests :
        /\ WF_vars(handler_returns(r) \/ handler_raises(r))
        /\ WF_vars(get_db_exit(r))

SpecSessions == Init /\ [][NextSessions]_vars /\ FairSessions

(***************************************************************************)
(* Concurrent requests.  Each request runs in its own Session (get_db); a   *)
(* step is one statement sent to the database, or the flush and COMMIT of  *)
(* db.commit().  sessions[r] holds request r: its handler, its arguments,  *)
(* its position, the row its Session loaded first (the identity map keeps  *)
(* the attributes of the first load), the attributes it changed, and its   *)
(* response.                                                               *)
(***************************************************************************)
ConcurrentRequest(op, args) ==
    [op |-> op, pc |-> "start", args |-> args, loaded |-> <<>>, dirty |-> {},
     status |-> 0, ret |-> "", body |-> <<>>]

\* the request is answered
Finish(r, status, ret, body) ==
    sessions' = [sessions EXCEPT ![r].pc = "done", ![r].status = status,
                                 ![r].ret = ret, ![r].body = body]

\* the request goes on to its next statement
Goto(r, pc) == sessions' = [sessions EXCEPT ![r].pc = pc]

\* "Check if calculation exists and belongs to user", the first SELECT of the
\* request's Session: the request after it
Checked(s) ==
    LET current_user == get_current_user(users, s.args.token)
        existing_calc == get_calculation(calculations, s.args.calculation_id)
    IN  IF current_user = <<>>
        THEN [s EXCEPT !.pc = "done", !.status = 401, !.ret = "Could not validate credentials"]
        ELSE IF ~Visible(existing_calc, current_user[1])
             THEN [s EXCEPT !.pc = "done", !.status = 404, !.ret = "Calculation not found"]
             ELSE [s EXCEPT !.pc = "select", !.loaded = existing_calc]

\* edit_calculation up to its call of crud.update_calculation
edit_calculation_check(r) ==
    /\ sessions[r].op = "edit_calculation" /\ sessions[r].pc = "start"
    /\ sessions' = [sessions EXCEPT ![r] = Checked(@)]
    /\ UNCHANGED <<call, backend, calculations, calc_seq, users, user_seq, resp>>

\* delete_calculation up to its call of crud.delete_calculation
delete_calculation_check(r) ==
    /\ sessions[r].op = "delete_calculation_route" /\ sessions[r].pc = "start"
    /\ sessions' = [sessions EXCEPT ![r] = Checked(@)]
    /\ UNCHANGED <<call, backend, calculations, calc_seq, users, user_seq, resp>>

\* the values update_calculation assigns
Assigned(q) ==
    [a |-> q.a, b |-> q.b, type |-> q.type, result |-> compute(q.a, q.b, q.type).value]

\* the attributes whose assigned value differs from the loaded one: the
\* columns of the UPDATE that the flush emits
Dirty(loaded, new) == {f \in DOMAIN new : new[f] # loaded[f]}

\* crud.update_calculation up to db.commit(): the SELECT of get_calculation,
\* compute, and the four assignments
update_calculation_select(r) ==
    /\ sessions[r].op = "edit_calculation" /\ sessions[r].pc = "select"
    /\ LET q == sessions[r].args
       IN  IF get_calculation(calculations, q.calculation_id) = <<>>
           THEN Finish(r, HandlerStatus(200, "None"), "None", <<>>)
           ELSE IF compute(q.a, q.b, q.type).exc # "none"
                THEN Finish(r, HandlerStatus(200, compute(q.a, q.b, q.type).exc),
                            compute(q.a, q.b, q.type).exc, <<>>)
                ELSE sessions' = [sessions EXCEPT
                                     ![r].pc = "commit",
                                     ![r].dirty = Dirty(sessions[r].loaded[1], Assigned(q))]
    /\ UNCHANGED <<call, backend, calculations, calc_seq, users, user_seq, resp>>

\* the row after UPDATE calculations SET <changed columns> WHERE id = ...
FlushedCalculation(row, dirty, new) ==
    [f \in DOMAIN row |-> IF f \in dirty THEN new[f] ELSE row[f]]

\* db.commit() of update_calculation: the flush and the COMMIT; an UPDATE
\* that matches no row raises StaleDataError
update_calculation_commit(r) ==
    /\ sessions[r].op = "edit_calculation" /\ sessions[r].pc = "commit"
    /\ LET q == sessions[r].args
       IN  IF sessions[r].dirty = {}
           THEN Goto(r, "refresh") /\ UNCHANGED calculations
           ELSE IF q.calculation_id \notin DOMAIN calculations
                THEN /\ Finish(r, HandlerStatus(200, "StaleDataError"), "StaleDataError", <<>>)
                     /\ UNCHANGED calculations
                ELSE /\ calculations' =
                            [calculations EXCEPT ![q.calculation_id] =
                                FlushedCalculation(@, sessions[r].dirty, Assigned(q))]
                     /\ Goto(r, "refresh")
    /\ UNCHANGED <<call, backend, calc_seq, users, user_seq, resp>>

\* db.refresh(db_calculation) and the handler's return
update_calculation_refresh(r) ==
    /\ sessions[r].op = "edit_calculation" /\ sessions[r].pc = "refresh"
    /\ LET q == sessions[r].args
           row == get_calculation(calculations, q.calculation_id)
       IN  IF row = <<>>
           THEN Finish(r, HandlerStatus(200, "InvalidRequestError"), "InvalidRequestError", <<>>)
           ELSE Finish(r, HandlerStatus(200, "Calculation"), "Calculation", row)
    /\ UNCHANGED <<call, backend, calculations, calc_seq, users, user_seq, resp>>

\* crud.delete_calculation up to db.delete(): the SELECT of get_calculation;
\* the handler answers 204 whatever delete_calculation returns
delete_calculation_select(r) ==
    /\ sessions[r].op = "delete_calculation_route" /\ sessions[r].pc = "select"
    /\ IF get_calculation(calculations, sessions[r].args.calculation_id) = <<>>
       THEN Finish(r, 204, "False", <<>>)
       ELSE Goto(r, "commit")
    /\ UNCHANGED <<call, backend, calculations, calc_seq, users, user_seq, resp>>

\* db.delete(db_calculation); db.commit()
delete_calculation_commit(r) ==
    /\ sessions[r].op = "delete_calculation_route" /\ sessions[r].pc = "commit"
    /\ calculations' = DeleteCalculationRow(calculations, sessions[r].args.calculation_id)
    /\ Finish(r, 204, "True", <<>>)
    /\ UNCHANGED <<call, backend, calc_seq, users, user_seq, resp>>

\* register_user: "Check if email already exists"
register_user_check_email(r) ==
    /\ sessions[r].op = "register_user" /\ sessions[r].pc = "start"
    /\ IF get_user_by_email(users, sessions[r].args.email) # <<>>
       THEN Finish(r, 400, "Email already registered", <<>>)
       ELSE Goto(r, "select")
    /\ UNCHANGED <<call, backend, calculations, calc_seq, users, user_seq, resp>>

\* register_user: "Check if username already exists"
register_user_check_username(r) ==
    /\ sessions[r].op = "register_user" /\ sessions[r].pc = "select"
    /\ IF get_user_by_username(users, sessions[r].args.username) # <<>>
       THEN Finish(r, 400, "Username already taken", <<>>)
       ELSE Goto(r, "commit")
    /\ UNCHANGED <<call, backend, calculations, calc_seq, users, user_seq, resp>>

\* crud.create_user: db.add, db.commit, db.refresh; the INSERT takes the next
\* id (consumed even if the INSERT fails, on a backend with a sequence) and
\* the unique indexes of users refuse a duplicate
register_user_commit(r) ==
    /\ sessions[r].op = "register_user" /\ sessions[r].pc = "commit"
    /\ LET q == sessions[r].args
           id == NextUserId
           inserted == users @@ (id :> User(q.email, q.username,
                                            hash_password(q.password, SetMin(Salts))))
       IN  /\ id <= MaxUsers
           /\ user_seq' = IF backend = "sqlite" THEN user_seq ELSE id
           /\ IF UniqueOk(inserted)
              THEN /\ users' = inserted
                   /\ Finish(r, 201, "", <<UserRead(inserted, id)>>)
              ELSE /\ users' = users
                   /\ Finish(r, 500, "IntegrityError", <<>>)
    /\ UNCHANGED <<call, backend, calculations, calc_seq, resp>>

\* the user who owns the stored calculation and sends the requests on it
Owner == SetMin(UserIds)

EditRequests ==
    {ConcurrentRequest("edit_calculation",
                       [token |-> Owner, calculation_id |-> 1, a |-> a, b |-> b, type |-> t]) :
        a \in ANums, b \in ANums, t \in {"Add", "Sub"}}

DeleteRequests ==
    {ConcurrentRequest("delete_calculation_route", [token |-> Owner, calculation_id |-> 1])}

RegisterRequests ==
    {ConcurrentRequest("register_user",
                       [email |-> e, username |-> u, password |-> SetMin(Passwords)]) :
        e \in Names, u \in Names}

\* the record the requests work on, as add_calculation stored it for Owner
StoredRows ==
    {Calculation(a, b, t, compute(a, b, t).value, Owner) :
        a \in ANums, b \in ANums, t \in {"Add", "Sub"}}

\* MaxRequests requests arrive together: registrations at an empty user
\* table, or edits and deletes of the one calculation of a registered user
InitConcurrent ==
    /\ call = NoCall
    /\ backend \in {"sqlite", "postgresql"}
    /\ resp = NoResp
    /\ \/ /\ users = <<>>
          /\ calculations = <<>>
          /\ sessions \in [Requests -> RegisterRequests]
       \/ /\ users = <<User(Owner, Owner, hash_password(SetMin(Passwords), SetMin(Salts)))>>
          /\ calculations \in {<<row>> : row \in StoredRows}
          /\ sessions \in [Requests -> EditRequests \cup DeleteRequests]
    /\ calc_seq = IF backend = "sqlite" THEN 0 ELSE Len(calculations)
    /\ user_seq = IF backend = "sqlite" THEN 0 ELSE Len(users)

NextConcurrent ==
    \E r \in Requests :
        \/ edit_calculation_check(r)
        \/ update_calculation_select(r)
        \/ update_calculation_commit(r)
        \/ update_calculation_refresh(r)
        \/ delete_calculation_check(r)
        \/ delete_calculation_select(r)
        \/ delete_calculation_commit(r)
        \/ register_user_check_email(r)
        \/ register_user_check_username(r)
        \/ register_user_commit(r)

SpecConcurrent == InitConcurrent /\ [][NextConcurrent]_vars

(***************************************************************************)
(* Claims.                                                                 *)
(***************************************************************************)
FourTypes == {"Add", "Sub", "Multiply", "Divide"}

\* C1: after any sequence of crud create / update / delete calls, every
\* stored calculation has result = compute(a, b, type) for its current a, b, type.
C1_ResultIsComputed ==
    \A id \in DOMAIN calculations :
        LET row == calculations[id]
            r == compute(row.a, row.b, row.type)
        IN  r.exc = "none" /\ row.result = r.value

\* C1 witness: an update has just changed a record whose result differs from
\* its first operand, while another record is stored.
C1_Witness ==
    /\ resp.op = "update_calculation" /\ resp.ret = "Calculation"
    /\ Cardinality(DOMAIN calculations) = 2
    /\ calculations[resp.id].type = "Sub"
    /\ calculations[resp.id].result # calculations[resp.id].a

\* C2: compute returns a value for every (a, b) under Add, Sub, Multiply; the
\* outcome is a function of (a, b, op) alone; Divide fails iff b = 0; Modulus
\* fails iff b = 0.
C2_ComputeDefined ==
    call.fn = "compute" =>
        /\ call.out = compute(call.a, call.b, call.type)
        /\ call.type \in {"Add", "Sub", "Multiply"} =>
               call.out.exc = "none" /\ call.out.value # NoValue
        /\ call.type \in {"Divide", "Modulus"} =>
               (call.out.exc # "none" <=> IsZero(call.b))
        /\ call.type \in {"Divide", "Modulus"} /\ ~IsZero(call.b) =>
               call.out.value # NoValue

\* C2 witness: a division with a zero dividend and a non-zero divisor returned.
C2_Witness ==
    /\ call.fn = "compute" /\ call.type = "Divide"
    /\ IsZero(call.a) /\ ~IsZero(call.b) /\ call.out.exc = "none"

\* C3: CalculationCreate rejects an input iff its type is outside the
\* enumeration, or its type is Divide or Modulus and b = 0; the Divide and the
\* Modulus rejections carry different messages.
C3_CreateRejectsIff ==
    call.fn = "CalculationCreate" =>
        /\ call.out.exc # "none" <=>
               \/ call.type \notin {"Add", "Sub", "Multiply", "Divide", "Power", "Modulus"}
               \/ call.type \in {"Divide", "Modulus"} /\ IsZero(call.b)
        /\ \A a \in Operands :
               CalculationCreate(a, R(0), "Divide").msg # CalculationCreate(a, R(0), "Modulus").msg

\* C3 witness: a Modulus input with b = 0 was rejected.
C3_Witness ==
    /\ call.fn = "CalculationCreate" /\ call.type = "Modulus" /\ IsZero(call.b)
    /\ call.out.exc = "ValidationError"

\* C4: CalculationCreate accepts only Add, Sub, Multiply and Divide: an input
\* of type Power is rejected, and POST /calculations/ with type Power answers
\* 422 and stores no record.
C4_OnlyFourTypes ==
    /\ call.fn = "CalculationCreate" /\ call.type \notin FourTypes =>
           call.out.exc = "ValidationError"
    /\ resp.op = "main.create_calculation" /\ resp.status = 201 =>
           resp.body[1].type \in FourTypes
    /\ \A id \in DOMAIN calculations : calculations[id].type \in FourTypes

\* C5: the record read back by get_calculation on the id create_calculation
\* returned has the submitted a, b, type and owner and the result computed at
\* creation; no call other than an update or delete of that id changes it.
C5_Step ==
    /\ resp'.op = "create_calculation" /\ resp'.ret = "Calculation" =>
           \A a \in ANums, b \in BNums, t \in CalculationTypeLiteral, u \in OwnerArgs :
               crud_create_calculation(a, b, t, u) =>
                   get_calculation(calculations', resp'.id) =
                       <<[id |-> resp'.id, a |-> a, b |-> b, type |-> t,
                          result |-> compute(a, b, t).value, user_id |-> u]>>
    /\ \A id \in DOMAIN calculations :
           ~(resp'.op \in {"update_calculation", "delete_calculation"} /\ resp'.id = id) =>
               get_calculation(calculations', id) = get_calculation(calculations, id)
    /\ resp'.op = "get_calculation" =>
           resp'.body = get_calculation(calculations, resp'.id)

\* C5, as a property of every step of the crud calls
C5_CreateReadRoundTrip == [][C5_Step]_vars

\* C5 witness: an owned Divide record was read back while a second record exists.
C5_Witness ==
    /\ resp.op = "get_calculation" /\ resp.ret = "Calculation"
    /\ Cardinality(DOMAIN calculations) = 2
    /\ resp.body[1].type = "Divide" /\ resp.body[1].user_id # None

\* C6: update_calculation on an existing id replaces a, b, type with the new
\* values and sets result to the dispatcher's output for them; on an absent id
\* it returns None and changes no record.
C6_Step ==
    resp'.op = "update_calculation" =>
        \A id \in CalcIds, a \in ANums, b \in BNums, t \in CalculationTypeLiteral :
            crud_update_calculation(id, a, b, t) =>
                IF id \in DOMAIN calculations
                THEN /\ resp'.ret = "Calculation"
                     /\ calculations'[id].a = a /\ calculations'[id].b = b
                     /\ calculations'[id].type = t
                     /\ calculations'[id].result = compute(a, b, t).value
                ELSE resp'.ret = "None" /\ calculations' = calculations

\* C6, as a property of every step of the crud calls
C6_UpdateReplaces == [][C6_Step]_vars

\* C7: delete_calculation returns True and removes exactly the record with that
\* id when it exists, after which get_calculation on the id finds nothing; on
\* an absent id it returns False, raises nothing and leaves every record
\* unchanged, also when repeated.
C7_Step ==
    resp'.op = "delete_calculation" =>
        /\ resp'.ret \in {"True", "False"}
        /\ \A id \in CalcIds :
               crud_delete_calculation(id) =>
                   IF id \in DOMAIN calculations
                   THEN /\ resp'.ret = "True"
                        /\ get_calculation(calculations', id) = <<>>
                        /\ DOMAIN calculations' = (DOMAIN calculations) \ {id}
                        /\ \A j \in DOMAIN calculations' : calculations'[j] = calculations[j]
                   ELSE resp'.ret = "False" /\ calculations' = calculations
        /\ resp.op = "delete_calculation" /\ resp.id = resp'.id =>
               resp'.ret = "False" /\ calculations' = calculations

\* C7, as a property of every step of the crud calls
C7_DeleteRemovesExactlyOne == [][C7_Step]_vars

\* C7, the absent case reached: a delete found nothing to delete while a
\* record is stored.
C7_ReachedAbsent ==
    /\ resp.op = "delete_calculation" /\ resp.ret = "False"
    /\ calculations # <<>>

\* C7 witness: a delete removed a record and another record is still stored.
C7_WitnessRemoved ==
    /\ resp.op = "delete_calculation" /\ resp.ret = "True"
    /\ calculations # <<>>

\* C8: through the authenticated routes a calculation owned by user A is never
\* in user B's browse result, and B's read, edit and delete of its id answer
\* 404, exactly as for an id that does not exist, and leave the record
\* unchanged and present.
C8_Step ==
    /\ resp'.op = "browse_calculations" /\ resp'.status = 200 =>
           \A token \in Tokens, skip \in Skips, limit \in Limits :
               browse_calculations(token, skip, limit) =>
                   \A k \in 1..Len(resp'.body) :
                       /\ resp'.body[k].user_id = token
                       /\ \A id \in DOMAIN calculations :
                              calculations[id].user_id # token => resp'.body[k].id # id
    /\ resp'.op \in {"read_calculation", "edit_calculation", "delete_calculation_route"} =>
           \A token \in DOMAIN users, id \in CalcIds :
               (id \notin DOMAIN calculations \/ calculations[id].user_id # token) =>
                   /\ read_calculation(token, id) =>
                          resp' = HttpResp("read_calculation", 404, "Calculation not found",
                                           None, <<>>)
                   /\ delete_calculation(token, id) =>
                          /\ resp' = HttpResp("delete_calculation_route", 404,
                                              "Calculation not found", None, <<>>)
                          /\ calculations' = calculations
                   /\ \A a \in ApiA, b \in ANums, t \in ApiTypes :
                          edit_calculation(token, id, a, b, t) /\ Accepted(a, b, t) =>
                              /\ resp' = HttpResp("edit_calculation", 404,
                                                  "Calculation not found", None, <<>>)
                              /\ calculations' = calculations

\* C8, as a property of every request to the authenticated routes
C8_OwnershipIsolation == [][C8_Step]_vars

\* C8 witness: every calculation id exists, the two records have different
\* owners, and an authenticated delete was answered 404.
C8_Witness ==
    /\ resp.op = "delete_calculation_route" /\ resp.status = 404
    /\ DOMAIN calculations = CalcIds
    /\ \E i \in CalcIds, j \in CalcIds : calculations[i].user_id # calculations[j].user_id

\* C9: a register request whose email is already registered fails with 400
\* (duplicate email), one whose username is already registered fails with 400
\* (duplicate username); neither creates a user nor changes an existing one.
C9_Step ==
    resp'.op = "register_user" =>
        \A e \in Names, u \in Names, p \in Passwords :
            (\E salt \in Salts : register_user(e, u, p, salt)) =>
                LET dup_email == \E i \in DOMAIN users : users[i].email = e
                    dup_username == \E i \in DOMAIN users : users[i].username = u
                IN  /\ dup_email =>
                           /\ resp'.status = 400 /\ resp'.ret = "Email already registered"
                           /\ users' = users
                    /\ dup_username =>
                           /\ resp'.status = 400 /\ users' = users
                           /\ ~dup_email => resp'.ret = "Username already taken"
                    /\ ~dup_email /\ ~dup_username =>
                           /\ resp'.status = 201
                           /\ DOMAIN users' = (DOMAIN users) \cup {resp'.id}
                           /\ \A i \in DOMAIN users : users'[i] = users[i]

\* C9, as a property of every register request
C9_DuplicateRegistrationFails == [][C9_Step]_vars

\* C9 witness: a registration was refused for its username alone, with one
\* user stored.
C9_Witness ==
    /\ resp.op = "register_user" /\ resp.status = 400
    /\ resp.ret = "Username already taken"
    /\ Cardinality(DOMAIN users) = 1

\* C10: login_user answers 401 when the identifier matches no user, when the
\* password does not verify against the matched user's hash, and when the
\* matched user has the right password but is inactive; no failed login
\* changes a stored user.
C10_Step ==
    resp'.op = "login_user" =>
        /\ users' = users
        /\ \A ident \in Names, p \in Passwords :
               login_user(ident, p) =>
                   LET by_email == {i \in DOMAIN users : users[i].email = ident}
                       by_name == {i \in DOMAIN users : users[i].username = ident}
                       matched == IF by_email # {} THEN by_email ELSE by_name
                   IN  /\ matched = {} => resp'.status = 401
                       /\ \A i \in matched :
                              /\ users[i].hashed_password[3] # p => resp'.status = 401
                              /\ users[i].hashed_password[3] = p /\ users[i].is_active = 0 =>
                                     resp'.status = 401
                              /\ users[i].hashed_password[3] = p /\ users[i].is_active = 1 =>
                                     resp'.status = 200 /\ resp'.id = i

\* C10, as a property of every login request
C10_FailedLoginIs401 == [][C10_Step]_vars

\* C10 witness: an inactive user's login was refused as inactive.
C10_Witness ==
    /\ resp.op = "login_user" /\ resp.status = 401
    /\ resp.ret = "User account is inactive"

\* C11: in every reachable state of the user store, each registered active
\* user who gives their own username as username_or_email, with their own
\* password, is answered 200 and identified as that user.
C11_LoginByOwnUsername ==
    \A i \in DOMAIN users :
        users[i].is_active = 1 =>
            LET out == LoginOutcome(users, users[i].username, users[i].hashed_password[3])
            IN  out.status = 200 /\ out.id = i

Min(x, y) == IF x < y THEN x ELSE y
Max(x, y) == IF x < y THEN y ELSE x

\* the stored records in creation order: a new record always receives an id
\* above every stored id, and no call changes an id
InCreationOrder(tbl) == RowsInIdOrder(tbl, DOMAIN tbl)

\* C12: list_calculations(skip, limit) over a store of n records returns
\* exactly min(limit, max(0, n - skip)) records, the records at positions
\* skip .. skip+limit-1 in creation order; a skip at or beyond n yields an
\* empty list and no error.
C12_Step ==
    resp'.op = "list_calculations" =>
        LET n == Cardinality(DOMAIN calculations)
            all == InCreationOrder(calculations)
        IN  /\ resp'.ret = "List"
            /\ Len(resp'.body) = Min(resp'.limit, Max(0, n - resp'.skip))
            /\ \A k \in 1..Len(resp'.body) : resp'.body[k] = all[resp'.skip + k]
            /\ resp'.skip >= n => resp'.body = <<>>

\* C12, as a property of every listing call
C12_ListWindow == [][C12_Step]_vars

\* C13: list_user_calculations(user_id) with a window covering the whole table
\* returns exactly the stored calculations whose owner is user_id: each of
\* them once, and no record of another user or of no user.
C13_Step ==
    resp'.op = "list_user_calculations" /\ resp'.skip = 0
      /\ resp'.limit >= Cardinality(DOMAIN calculations) =>
        LET owned == {i \in DOMAIN calculations : calculations[i].user_id = resp'.id}
        IN  /\ {resp'.body[k] : k \in 1..Len(resp'.body)} =
                   {CalculationRead(calculations, i) : i \in owned}
            /\ Len(resp'.body) = Cardinality(owned)
            /\ \A k \in 1..Len(resp'.body) : resp'.body[k].user_id = resp'.id

\* C13, as a property of every listing call
C13_ListByOwner == [][C13_Step]_vars

\* C13 witness: a registered user's list, taken with the default window on
\* PostgreSQL, holds that user's one record while another user's record is
\* stored too.
C13_Witness ==
    /\ resp.op = "list_user_calculations" /\ resp.skip = 0 /\ resp.limit = DefaultLimit
    /\ backend = "postgresql" /\ resp.id \in DOMAIN users
    /\ Len(resp.body) = 1
    /\ \E i \in DOMAIN calculations :
           calculations[i].user_id \in (DOMAIN users) \ {resp.id}

\* C13, second case reached: the list leaves out a record owned by nobody.
C13_ReachedUnowned ==
    /\ resp.op = "list_user_calculations" /\ resp.skip = 0 /\ resp.limit = DefaultLimit
    /\ resp.id # None /\ Len(resp.body) = 1
    /\ \E i \in DOMAIN calculations : calculations[i].user_id = None

\* C14: every session get_db acquires for a request is eventually closed,
\* whether the handler returns or raises, and no session is used after it
\* has been closed.
C14_SessionsAreClosed ==
    \A r \in Requests :
        /\ [](sessions[r].db = "open" => <>(sessions[r].db = "closed"))
        /\ [](~sessions[r].stale)
        /\ [](sessions[r].db = "closed" => [](sessions[r].db = "closed"))

\* C14 witness: a session that was used is closed after its handler raised,
\* while another request still holds its session open.
C14_Witness ==
    \E r \in Requests, q \in Requests :
        /\ sessions[r].db = "closed" /\ sessions[r].outcome = "raised"
        /\ sessions[r].used > 0
        /\ sessions[q].db = "open"

\* C15: when create_calculation or update_calculation fails because the
\* dispatcher raises (zero divisor, zero modulus, unknown type), the store is
\* exactly as before the call: no record added, no field of the targeted
\* record changed.
C15_Step ==
    /\ resp'.op = "create_calculation" =>
           \A a \in UncheckedA, b \in ANums, t \in UncheckedTypes, u \in OwnerArgs :
               crud_create_calculation_unchecked(a, b, t, u) /\ compute(a, b, t).exc # "none" =>
                   /\ resp'.ret = compute(a, b, t).exc
                   /\ calculations' = calculations /\ calc_seq' = calc_seq
    /\ resp'.op = "update_calculation" =>
           \A id \in CalcIds, a \in UncheckedA, b \in ANums, t \in UncheckedTypes :
               crud_update_calculation_unchecked(id, a, b, t) /\ id \in DOMAIN calculations
                 /\ compute(a, b, t).exc # "none" =>
                   /\ resp'.ret = compute(a, b, t).exc
                   /\ calculations' = calculations /\ calc_seq' = calc_seq
    /\ resp'.ret \in {"ZeroDivisionError", "ValueError"} => calculations' = calculations

\* C15, as a property of every crud call
C15_FailureLeavesStore == [][C15_Step]_vars

\* C15 witness: an update of a stored record failed on a zero divisor or a
\* zero modulus, with every calculation id stored.
C15_Witness ==
    /\ resp.op = "update_calculation" /\ resp.ret = "ZeroDivisionError"
    /\ DOMAIN calculations = CalcIds

\* C15, the other failures reached: a create failed on a zero divisor or
\* modulus, and an update on an unknown type.
C15_ReachedCreateFailed ==
    /\ resp.op = "create_calculation" /\ resp.ret = "ZeroDivisionError"
    /\ calculations # <<>>

C15_ReachedUnknownType ==
    /\ resp.op = "update_calculation" /\ resp.ret = "ValueError"
    /\ resp.id \in DOMAIN calculations

\* C16: UserUpdate is rejected iff neither email nor username is a non-empty
\* string (each of them absent or empty); an input with at least one
\* non-empty field is accepted.
C16_UserUpdateRejectsIff ==
    call.fn = "UserUpdate" =>
        LET non_empty(v) == v # NoneStr /\ v[1] # <<>>
        IN  /\ call.out = UserUpdate(call.email, call.username)
            /\ call.out.exc # "none" <=> ~non_empty(call.email) /\ ~non_empty(call.username)
            /\ non_empty(call.email) \/ non_empty(call.username) => call.out.exc = "none"

\* C16 witness: an update with an empty email and an absent username was
\* rejected.
C16_Witness ==
    /\ call.fn = "UserUpdate" /\ call.email = Some(<<>>) /\ call.username = NoneStr
    /\ call.out.exc = "ValidationError"

\* C16, the accepting case reached: an empty email beside a username.
C16_ReachedAccepted ==
    /\ call.fn = "UserUpdate" /\ call.email = Some(<<>>) /\ call.username = Some(<<"a">>)
    /\ call.out.exc = "none"

\* C17: PasswordChange is rejected iff new_password equals current_password or
\* new_password has fewer than 6 characters; a new password of exactly 6
\* characters that differs from the current one is accepted.
C17_PasswordChangeRejectsIff ==
    call.fn = "PasswordChange" =>
        /\ call.out = PasswordChange(call.current_password, call.new_password)
        /\ call.out.exc # "none" <=>
               \/ call.new_password = call.current_password
               \/ Len(call.new_password) < 6
        /\ Len(call.new_password) = 6 /\ call.new_password # call.current_password =>
               call.out.exc = "none"

\* C17 witness: a new password of exactly 6 characters, different from the
\* current one of 6 characters, was accepted.
C17_Witness ==
    /\ call.fn = "PasswordChange" /\ Len(call.new_password) = 6
    /\ Len(call.current_password) = 6 /\ call.out.exc = "none"

\* C17, the rejections reached: a long password equal to the current one, and
\* a new password of 5 characters.
C17_ReachedSame ==
    /\ call.fn = "PasswordChange" /\ Len(call.new_password) = 7
    /\ call.out.msg = "New password must be different from current password"

C17_ReachedShort ==
    /\ call.fn = "PasswordChange" /\ Len(call.new_password) = 5
    /\ call.out.msg = "New password must be at least 6 characters long"

\* C18 (amended): for every a and every non-zero b, the result of the Modulus
\* operation is zero or has the sign of the divisor b.
C18_ModulusSignOfDivisor ==
    call.fn = "compute" /\ call.type = "Modulus" /\ ~IsZero(call.b) =>
        /\ call.out.exc = "none"
        /\ IsZero(call.out.value) \/ Sign(call.out.value) = Sign(call.b)

\* C18 as stated: for every a and every non-zero b, the result of the Modulus
\* operation is zero or has the sign of the dividend a.
C18_ModulusSignOfDividend ==
    call.fn = "compute" /\ call.type = "Modulus" /\ ~IsZero(call.b) =>
        /\ call.out.exc = "none"
        /\ IsZero(call.out.value) \/ Sign(call.out.value) = Sign(call.a)

\* C18 witness: a negative dividend under a positive divisor gave a positive
\* remainder.
C18_Witness ==
    /\ call.fn = "compute" /\ call.type = "Modulus"
    /\ Sign(call.a) = -1 /\ Sign(call.b) = 1 /\ Sign(call.out.value) = 1

\* C19: compute called with an operation name outside its dispatch table
\* fails with a ValueError for every (a, b) and returns no number;
\* OperationFactory.create does the same for a name outside its own table.
C19_UnknownNameIsValueError ==
    /\ call.fn = "compute"
         /\ call.type \notin {"Add", "Sub", "Multiply", "Divide", "Power", "Modulus"} =>
           call.out.exc = "ValueError" /\ call.out.value = NoValue
    /\ call.fn = "OperationFactory.create"
         /\ call.type \notin {"Add", "Sub", "Multiply", "Divide"} =>
           call.out.exc = "ValueError" /\ call.out.operation = ""
    /\ \A a \in Operands, b \in Operands :
           compute(a, b, UnknownType) = Raised("ValueError", "Invalid operation type")

\* C19 witness: compute was called with an unknown name on a zero second
\* operand and raised ValueError.
C19_Witness ==
    /\ call.fn = "compute" /\ call.type = UnknownType /\ IsZero(call.b)
    /\ call.out.exc = "ValueError"

\* C19, the factory's case reached: create raised for a name that compute
\* knows and the factory does not.
C19_ReachedFactory ==
    /\ call.fn = "OperationFactory.create" /\ call.type = "Modulus"
    /\ call.out.exc = "ValueError"

\* C20: constructing a Calculation without a result (or with result None)
\* sets result to the value the operation of its type gives for (a, b), for
\* every operation type the validation layer accepts; constructing it with an
\* explicit result stores that value verbatim, even when it differs from the
\* computed one.
C20_ConstructorComputes ==
    call.fn = "Calculation" =>
        /\ call.result = NoValue /\ Accepted(call.a, call.b, call.type)
             /\ compute(call.a, call.b, call.type).exc = "none" =>
               /\ call.out.exc = "none"
               /\ call.out.row[1].result = compute(call.a, call.b, call.type).value
        /\ call.result # NoValue =>
               call.out.exc = "none" /\ call.out.row[1].result = call.result

\* C20 restricted to the four types the factory knows (holds).
C20_HoldsForFourTypes ==
    call.fn = "Calculation" /\ call.type \in FourTypes =>
        /\ call.result = NoValue /\ Accepted(call.a, call.b, call.type) =>
               /\ call.out.exc = "none"
               /\ call.out.row[1].result = compute(call.a, call.b, call.type).value
        /\ call.result # NoValue =>
               call.out.exc = "none" /\ call.out.row[1].result = call.result

\* C21: get_user_calculation_stats(user) counts only that user's
\* calculations: total_calculations is their number and the sum of the counts
\* in operations_breakdown, most_used_operation is a type whose count is
\* maximal, average_result is the sum of their results divided by their
\* number; for a user with no calculations it returns total 0, an empty
\* breakdown, and None for most_used_operation and average_result.
C21_StatsOfOwner ==
    resp.op = "get_user_calculation_stats" =>
        LET stats == resp.body[1]
            owned == {i \in DOMAIN calculations : calculations[i].user_id = resp.id}
            count(t) == Cardinality({i \in owned : calculations[i].type = t})
            types == {calculations[i].type : i \in owned}
            total == SumResults(RowsInIdOrder(calculations, owned))
        IN  /\ stats.total_calculations = Cardinality(owned)
            /\ DOMAIN stats.operations_breakdown = types
            /\ \A t \in types : stats.operations_breakdown[t] = count(t)
            /\ owned = {} =>
                   /\ stats.operations_breakdown = <<>>
                   /\ stats.most_used_operation = <<>> /\ stats.average_result = <<>>
            /\ owned # {} =>
                   /\ stats.most_used_operation # <<>>
                   /\ stats.most_used_operation[1] \in types
                   /\ \A t \in types : count(t) <= count(stats.most_used_operation[1])
                   /\ stats.average_result = <<RDiv(total, R(Cardinality(owned)))>>
                   /\ (IF "Add" \in types THEN count("Add") ELSE 0)
                        + (IF "Sub" \in types THEN count("Sub") ELSE 0)
                          = stats.total_calculations

\* C21 witness: statistics over two Sub records and one Add record of one
\* user on PostgreSQL, with a non-integer average.
C21_Witness ==
    /\ resp.op = "get_user_calculation_stats" /\ backend = "postgresql"
    /\ resp.body[1].total_calculations = 3
    /\ resp.body[1].most_used_operation = <<"Sub">>
    /\ DOMAIN resp.body[1].operations_breakdown = {"Add", "Sub"}
    /\ resp.body[1].average_result[1][2] # 1

\* C21, the other cases reached: a user without calculations while others
\* have some, and a user whose records are outnumbered by another user's.
C21_ReachedEmpty ==
    /\ resp.op = "get_user_calculation_stats" /\ resp.body[1].total_calculations = 0
    /\ Len(calculations) = 3

C21_ReachedMixedOwners ==
    /\ resp.op = "get_user_calculation_stats" /\ resp.body[1].total_calculations = 1
    /\ \E i \in DOMAIN calculations : calculations[i].user_id \notin {None, resp.id}

\* C22: change_password with a current_password that does not verify against
\* the caller's stored hash responds 401 and leaves the stored hash unchanged;
\* with a correct current_password it replaces only the caller's hash, after
\* which the new password verifies and the old one does not, and no other
\* user's record changes.
C22_Step ==
    resp'.op = "change_password" =>
        \A token \in DOMAIN users, current_password \in ProfilePasswords,
           new_password \in ProfilePasswords :
            (\E salt \in Salts : change_password(token, current_password, new_password, salt))
              /\ PasswordChange(current_password, new_password).exc = "none" =>
                IF ~verify_password(current_password, users[token].hashed_password)
                THEN resp'.status = 401 /\ users' = users
                ELSE /\ resp'.status = 200
                     /\ verify_password(new_password, users'[token].hashed_password)
                     /\ ~verify_password(current_password, users'[token].hashed_password)
                     /\ users'[token] =
                            [users[token] EXCEPT !.hashed_password = users'[token].hashed_password]
                     /\ \A i \in (DOMAIN users') \ {token} : users'[i] = users[i]
                     /\ DOMAIN users' = DOMAIN users

\* C22, as a property of every change-password request
C22_PasswordChangeReplacesOwnHash == [][C22_Step]_vars

\* C22 witness: a password was changed while another user still holds the
\* password the caller gave up.
C22_Witness ==
    /\ resp.op = "change_password" /\ resp.status = 200
    /\ \E i \in DOMAIN users :
           /\ i # resp.id
           /\ ~verify_password(users[i].hashed_password[3], users[resp.id].hashed_password)

\* C22, the refusal reached: a wrong current password with two users stored.
C22_ReachedRefused ==
    /\ resp.op = "change_password" /\ resp.status = 401
    /\ resp.ret = "Current password is incorrect"
    /\ Cardinality(DOMAIN users) = 2

\* C23: after any sequence of register_user and update_my_profile requests no
\* two stored users share an email and no two share a username; a profile
\* update to an email or username held by a different user responds 400 and
\* changes nothing, while resubmitting the caller's own current email or
\* username is accepted.
C23_Step ==
    /\ UniqueOk(users')
    /\ resp'.op = "update_my_profile" =>
           \A token \in DOMAIN users, email \in ProfileFields, username \in ProfileFields :
               update_my_profile(token, email, username)
                 /\ UserUpdate(AsText(email), AsText(username)).exc = "none" =>
                   LET others == (DOMAIN users) \ {token}
                       taken == \/ email # NoneStr /\ \E j \in others : users[j].email = email[1]
                                \/ username # NoneStr
                                     /\ \E j \in others : users[j].username = username[1]
                       own(v, current) == v = NoneStr \/ v = Some(current)
                   IN  /\ taken => resp'.status = 400 /\ users' = users
                       /\ own(email, users[token].email)
                            /\ own(username, users[token].username) =>
                              resp'.status = 200 /\ users' = users

\* C23, as a property of every register and profile request
C23_UniqueEmailsAndUsernames == [][C23_Step]_vars

\* C23, the part that holds: no two stored users share an email or a username.
C23_HoldsUniqueness == UniqueOk(users)

\* C30: a profile update changes only the fields supplied as non-empty
\* strings: a field that is absent or an empty string leaves the stored value
\* unchanged, so no user ever has an empty email or username.
C30_Step ==
    /\ \A i \in DOMAIN users' :
           users'[i].email # EmptyName /\ users'[i].username # EmptyName
    /\ resp'.op = "update_my_profile" =>
           \A token \in DOMAIN users, email \in ProfileFields, username \in ProfileFields :
               update_my_profile(token, email, username) =>
                   /\ ~Provided(email) => users'[token].email = users[token].email
                   /\ ~Provided(username) => users'[token].username = users[token].username
                   /\ \A i \in (DOMAIN users) \ {token} : users'[i] = users[i]

\* C30, as a property of every profile request
C30_EmptyFieldsAreIgnored == [][C30_Step]_vars

\* C24: for every input that CalculationCreate accepts, compute(a, b, type)
\* returns a result without raising, so the create and update handlers never
\* answer a validated request with the 400 of their domain-error path.
C24_ValidatedNeverRaises ==
    resp.op \in {"create_calculation", "update_calculation"} =>
        /\ resp.ret \notin {"ValueError", "ZeroDivisionError"}
        /\ HandlerStatus(201, resp.ret) # 400

\* C24, the part that holds: Divide and Modulus never raise on accepted input.
C24_HoldsForDivideAndModulus ==
    \A a \in ANums, b \in BNums, t \in {"Divide", "Modulus"} :
        Accepted(a, b, t) => compute(a, b, t).exc = "none"

\* C25: crud.update_calculation never changes the id or the owner of the
\* record it updates and never changes any field of any other record; the
\* owner of a calculation stays what it was at creation for as long as the
\* record is stored.
C25_Step ==
    /\ \A id \in (DOMAIN calculations) \cap (DOMAIN calculations') :
           calculations'[id].user_id = calculations[id].user_id
    /\ resp'.op = "update_calculation" =>
           /\ DOMAIN calculations' = DOMAIN calculations
           /\ \A id \in (DOMAIN calculations) \ {resp'.id} :
                  calculations'[id] = calculations[id]

\* C25, as a property of every step of the crud calls
C25_UpdateKeepsIdAndOwner == [][C25_Step]_vars

\* C25 witness: an owned record was updated while another record is stored.
C25_Witness ==
    /\ resp.op = "update_calculation" /\ resp.ret = "Calculation"
    /\ resp.id \in DOMAIN calculations
    /\ calculations[resp.id].user_id # None
    /\ Cardinality(DOMAIN calculations) = 2

\* C29: in every reachable state each stored calculation's owner is either
\* absent or the id of a stored user; the unauthenticated POST /calculations/
\* with a user_id query parameter cannot store a calculation owned by a user
\* that does not exist.
C29_OwnersExist ==
    \A id \in DOMAIN calculations :
        calculations[id].user_id = None \/ calculations[id].user_id \in DOMAIN users

\* C29, the part that holds: a backend that enforces the foreign key refuses
\* the insert.
C29_HoldsWithForeignKeys ==
    backend = "postgresql" => C29_OwnersExist

\* an edit request whose db.commit() has happened
C26_Committed(r) ==
    /\ sessions[r].op = "edit_calculation"
    /\ \/ sessions[r].pc = "refresh"
       \/ sessions[r].pc = "done" /\ sessions[r].ret \in {"Calculation", "InvalidRequestError"}

\* C26: under any interleaving of concurrent update requests on the same
\* calculation, each in its own session, every committed state of the record
\* has a, b, type and result all taken from one single request, so
\* result = compute(a, b, type) holds in every reachable state.
C26_RecordFromOneRequest ==
    (\A r \in Requests : sessions[r].op = "edit_calculation") =>
        \A id \in DOMAIN calculations :
            LET row == calculations[id]
            IN  /\ row.result = compute(row.a, row.b, row.type).value
                /\ (\E r \in Requests : C26_Committed(r)) =>
                       \E r \in Requests :
                           /\ sessions[r].args.a = row.a /\ sessions[r].args.b = row.b
                           /\ sessions[r].args.type = row.type

\* C27: in every interleaving of an authenticated PUT /calculations/{id} with
\* a concurrent DELETE of the same id by the owner, the PUT responds either
\* 200 with the updated record or 404, and nothing else.
C27_PutAnswers200Or404 ==
    \A r, d \in Requests :
        /\ sessions[r].op = "edit_calculation" /\ sessions[r].pc = "done"
        /\ sessions[d].op = "delete_calculation_route"
        => \/ sessions[r].status = 200 /\ sessions[r].body # <<>>
           \/ sessions[r].status = 404

\* C28: in every interleaving of two concurrent register requests carrying
\* the same email (or the same username), exactly one user is created and the
\* other request is answered with the 400 duplicate response.
C28_OneCreatedOtherRefused ==
    \A r, o \in Requests :
        /\ r # o
        /\ sessions[r].op = "register_user" /\ sessions[o].op = "register_user"
        /\ sessions[r].pc = "done" /\ sessions[o].pc = "done"
        /\ \/ sessions[r].args.email = sessions[o].args.email
           \/ sessions[r].args.username = sessions[o].args.username
        => /\ Cardinality(DOMAIN users) = 1
           /\ {sessions[r].status, sessions[o].status} = {201, 400}

\* C28, the part that holds: never more than one of the two is stored.
C28_HoldsOneCreated ==
    \A r, o \in Requests :
        /\ r # o
        /\ sessions[r].op = "register_user" /\ sessions[o].op = "register_user"
        /\ \/ sessions[r].args.email = sessions[o].args.email
           \/ sessions[r].args.username = sessions[o].args.username
        => Cardinality(DOMAIN users) <= 1

====
